---------------------------- MODULE Spec2Model ----------------------------
(***************************************************************************)
(* A model of bin/generate-readme.js: main() runs getRepos(), then         *)
(* collectRepoMetadata(repos), then generateReadme(repoMetadata).          *)
(*                                                                         *)
(* JavaScript strings are sequences of one-character strings.  Every       *)
(* `await` of a network call is split into the step that issues the        *)
(* request and the step that resumes with its outcome; the code between    *)
(* two awaits runs without interruption.                                   *)
(***************************************************************************)
EXTENDS Integers, Sequences, FiniteSets, TLC

(***************************************************************************)
(* Bounds of the model.                                                    *)
(***************************************************************************)
\* repositories the search can return
NumRepos == 2
\* result pages the search endpoint serves at most
MaxPages == 2
\* items of one result page
MaxItems == 2
\* length of the argument of collectRepoMetadata when it is run on its own
MaxRepos == 3
\* entries of the argument of generateReadme when it is run on its own
MaxEntries == 2
\* pieces a product-documentation URL is built from
MaxPieces == 6

(***************************************************************************)
(* Strings.                                                                *)
(***************************************************************************)
Lowers == <<"a", "b", "c", "d", "e", "f", "g", "h", "i", "j", "k", "l", "m",
            "n", "o", "p", "q", "r", "s", "t", "u", "v", "w", "x", "y", "z">>
Uppers == <<"A", "B", "C", "D", "E", "F", "G", "H", "I", "J", "K", "L", "M",
            "N", "O", "P", "Q", "R", "S", "T", "U", "V", "W", "X", "Y", "Z">>

IsUpper(c) == \E i \in 1..Len(Uppers) : Uppers[i] = c
IsLower(c) == \E i \in 1..Len(Lowers) : Lowers[i] = c
\* the position of a letter in the alphabet, whatever its case
LetterIndex(c) ==
  IF IsUpper(c) THEN CHOOSE i \in 1..Len(Uppers) : Uppers[i] = c
  ELSE IF IsLower(c) THEN CHOOSE i \in 1..Len(Lowers) : Lowers[i] = c
  ELSE 0

StartsWith(s, p) == Len(s) >= Len(p) /\ SubSeq(s, 1, Len(p)) = p
Drop(s, n) == SubSeq(s, n + 1, Len(s))

\* String.prototype.toLowerCase
ToLowerCase(s) ==
  [i \in 1..Len(s) |-> IF IsUpper(s[i]) THEN Lowers[LetterIndex(s[i])] ELSE s[i]]

\* String.prototype.trim (the only white space of the alphabet is " ")
Trim(s) ==
  LET nonBlank == {i \in 1..Len(s) : s[i] # " "}
  IN  IF nonBlank = {} THEN <<>>
      ELSE SubSeq(s, CHOOSE i \in nonBlank : \A j \in nonBlank : i <= j,
                     CHOOSE i \in nonBlank : \A j \in nonBlank : j <= i)

GooglePrefix == <<"G", "o", "o", "g", "l", "e", " ">>
CloudPrefix == <<"C", "l", "o", "u", "d", " ">>

\* name_pretty.replace(/^(Google )?Cloud /, '')
NormalizeName(name) ==
  IF StartsWith(name, GooglePrefix \o CloudPrefix)
    THEN Drop(name, Len(GooglePrefix \o CloudPrefix))
  ELSE IF StartsWith(name, CloudPrefix) THEN Drop(name, Len(CloudPrefix))
  ELSE name

StackdriverWord == <<"s", "t", "a", "c", "k", "d", "r", "i", "v", "e", "r">>

\* name_pretty.toLowerCase().trim().startsWith('stackdriver')
IsStackdriver(name) == StartsWith(Trim(ToLowerCase(name)), StackdriverWord)

StackdriverSupportUrl ==
  <<"h", "t", "t", "p", "s", ":", "/", "/", "c", "l", "o", "u", "d", ".",
    "g", "o", "o", "g", "l", "e", ".", "c", "o", "m", "/", "s", "t", "a",
    "c", "k", "d", "r", "i", "v", "e", "r", "/", "d", "o", "c", "s", "/",
    "g", "e", "t", "t", "i", "n", "g", "-", "s", "u", "p", "p", "o", "r", "t">>

DocsSlash == <<"d", "o", "c", "s", "/">>
GettingSupport ==
  <<"d", "o", "c", "s", "/", "g", "e", "t", "t", "i", "n", "g", "-", "s",
    "u", "p", "p", "o", "r", "t">>

\* .replace(/\/*$/, '/'): the leftmost match of /\/*$/ is the whole run of
\* trailing slashes (the empty string at the end when there is none)
GuaranteeTrailingSlash(s) ==
  LET p == CHOOSE i \in 1..(Len(s) + 1) :
             /\ \A j \in i..Len(s) : s[j] = "/"
             /\ \A k \in 1..(i - 1) : \E j \in k..Len(s) : s[j] # "/"
  IN  SubSeq(s, 1, p - 1) \o <<"/">>

\* whether /(docs\/(.+)*)*$/ matches at position p of s: either "docs/"
\* starts there (and (.+)* takes the rest), or p is the end of s
DocsPatternMatchesAt(s, p) ==
  \/ p = Len(s) + 1
  \/ p + Len(DocsSlash) - 1 <= Len(s) /\ SubSeq(s, p, p + Len(DocsSlash) - 1) = DocsSlash

\* the match the final-segment reading of the pattern would take
DocsMatchStartLast(s) ==
  LET starts == {p \in 1..Len(s) : DocsPatternMatchesAt(s, p)}
  IN  IF starts = {} THEN Len(s) + 1
      ELSE CHOOSE p \in starts : \A q \in starts : q <= p

\* where String.prototype.replace finds its match: the leftmost position
DocsMatchStart(s) ==
  CHOOSE p \in 1..(Len(s) + 1) :
    /\ DocsPatternMatchesAt(s, p)
    /\ \A q \in 1..(p - 1) : ~DocsPatternMatchesAt(s, q)

\* .replace(/(docs\/(.+)*)*$/, 'docs/getting-support')
ReplaceDocsSuffix(s) == SubSeq(s, 1, DocsMatchStart(s) - 1) \o GettingSupport

\* lines 85-90: the candidate derived from product_documentation
DerivedSupportUrl(doc) == ReplaceDocsSuffix(GuaranteeTrailingSlash(doc))

\* a candidate computed without the stackdriver override
CandidateUrlNoOverride(name, doc) == DerivedSupportUrl(doc)

\* lines 85-95: supportDocsUrl as it is when the HEAD request is issued;
\* name is the normalized name_pretty
CandidateUrl(name, doc) ==
  IF IsStackdriver(name) THEN StackdriverSupportUrl ELSE DerivedSupportUrl(doc)

\* a fallback that would treat every error status as "does not exist"
AfterProbeAnyError(candidate, doc, status) ==
  IF status >= 400 THEN doc ELSE candidate

\* lines 103-106: supportDocsUrl after the probe answered with status
AfterProbe(candidate, doc, status) ==
  IF status # 404 THEN candidate ELSE doc

(***************************************************************************)
(* String comparison.                                                      *)
(***************************************************************************)
RECURSIVE SeqCompare(_, _)
\* lexicographic comparison of two sequences of integers: -1, 0 or 1
SeqCompare(x, y) ==
  IF x = <<>> /\ y = <<>> THEN 0
  ELSE IF x = <<>> THEN -1
  ELSE IF y = <<>> THEN 1
  ELSE IF Head(x) < Head(y) THEN -1
  ELSE IF Head(x) > Head(y) THEN 1
  ELSE SeqCompare(Tail(x), Tail(y))

\* primary collation weight: the blank before every letter, letters by
\* alphabet position whatever their case
PrimaryWeight(c) == IF c = " " THEN 0 ELSE LetterIndex(c)
\* tertiary collation weight: lower case before upper case
CaseWeight(c) == IF IsUpper(c) THEN 1 ELSE 0
\* UTF-16 code unit of a character of the alphabet
CodeUnit(c) ==
  IF c = " " THEN 32
  ELSE IF IsUpper(c) THEN 64 + LetterIndex(c)
  ELSE 96 + LetterIndex(c)

\* comparison by code units, what the operators < and <= do on strings
CodeUnitCompare(a, b) ==
  SeqCompare([i \in 1..Len(a) |-> CodeUnit(a[i])],
             [i \in 1..Len(b) |-> CodeUnit(b[i])])

\* String.prototype.localeCompare under the default collation: the letters
\* decide first, case breaks ties
LocaleCompare(a, b) ==
  LET p == SeqCompare([i \in 1..Len(a) |-> PrimaryWeight(a[i])],
                      [i \in 1..Len(b) |-> PrimaryWeight(b[i])])
  IN  IF p # 0 THEN p
      ELSE SeqCompare([i \in 1..Len(a) |-> CaseWeight(a[i])],
                      [i \in 1..Len(b) |-> CaseWeight(b[i])])

(***************************************************************************)
(* Data the services answer with.                                          *)
(***************************************************************************)
AllRepoNames ==
  <<"googleapis/nodejs-a", "googleapis/nodejs-b", "googleapis/nodejs-c",
    "googleapis/nodejs-d">>
\* full_name values the search returns
RepoIds == {AllRepoNames[i] : i \in 1..NumRepos}

RECURSIVE SeqsUpTo(_, _)
\* the sequences over S of length at most n
SeqsUpTo(S, n) ==
  IF n = 0 THEN {<<>>}
  ELSE LET shorter == SeqsUpTo(S, n - 1)
       IN  shorter \cup {Append(s, x) : s \in shorter, x \in S}

\* an optional JSON field is <<>> when absent and <<value>> when present
Absent == <<>>
\* JavaScript truthiness of an optional string field
Truthy(field) == field # Absent /\ field[1] # ""

ApiIds == {Absent, <<"">>, <<"pubsub.googleapis.com">>}

Names ==
  { <<"C", "l", "o", "u", "d", " ", "b">>,
    <<"B">>,
    <<" ", "S", "t", "a", "c", "k", "D", "r", "i", "v", "e", "r">> }

DocA ==
  <<"h", "t", "t", "p", "s", ":", "/", "/", "g", ".", "c", "o", "/", "a",
    "/", "d", "o", "c", "s", "/", "b">>
DocB == <<"h", "t", "t", "p", "s", ":", "/", "/", "g", ".", "c", "o", "/", "c", "/">>
\* product_documentation values; <<>> is a missing (or empty) field
Docs == {<<>>, DocA, DocB}

\* the fields of .repo-metadata.json the script reads, and the one it adds
MakeRecord(api, name, doc) ==
  [api_id |-> api, name_pretty |-> name, product_documentation |-> doc,
   support_documentation |-> <<>>]
Records == {MakeRecord(a, n, d) : a \in ApiIds, n \in Names, d \in Docs}
\* the records of a whole run: one without api_id, three listed ones
RunRecords ==
  { MakeRecord(Absent, <<"B">>, DocA),
    MakeRecord(<<"pubsub.googleapis.com">>, <<"B">>, <<>>),
    MakeRecord(<<"pubsub.googleapis.com">>, <<"C", "l", "o", "u", "d", " ", "b">>, DocA),
    MakeRecord(<<"pubsub.googleapis.com">>,
               <<" ", "S", "t", "a", "c", "k", "D", "r", "i", "v", "e", "r">>, DocB) }

\* the Link header of a search response: none, one without rel="next", or
\* one whose rel="next" names the following page
Links == {"none", "other", "next"}
\* how a contents request fails: an HTTP error status (err.response is
\* set), no response at all, or content that does not decode and parse
ContentsErrors ==
  {[kind |-> "http", status |-> s] : s \in {403, 404, 500}}
    \cup {[kind |-> "network", status |-> 0], [kind |-> "parse", status |-> 0]}
\* statuses a HEAD request resolves with (validateStatus accepts all)
ProbeStatuses == {200, 403, 404, 500}

URLPieces == { <<"/">>, <<"d", "o", "c", "s">>, <<"a">> }
RECURSIVE Concatenations(_)
\* the strings made of at most n pieces
Concatenations(n) ==
  IF n = 0 THEN {<<>>}
  ELSE LET shorter == Concatenations(n - 1)
       IN  shorter \cup {s \o p : s \in shorter, p \in URLPieces}
UrlInputs == Concatenations(MaxPieces) \ {<<>>}

SearchReq(p) == [kind |-> "search", page |-> p, repo |-> "", url |-> <<>>]
ContentsReq(r) == [kind |-> "contents", page |-> 0, repo |-> r, url |-> <<>>]
HeadReq(u) == [kind |-> "head", page |-> 0, repo |-> "", url |-> u]

NoRecord == MakeRecord(Absent, <<>>, <<>>)
NoError == [kind |-> "none", status |-> 0]
Unknown == [kind |-> "unknown", rec |-> NoRecord, err |-> NoError]
Found(rec) == [kind |-> "found", rec |-> rec, err |-> NoError]
Failing(err) == [kind |-> "error", rec |-> NoRecord, err |-> err]

(***************************************************************************)
(* State.                                                                  *)
(***************************************************************************)
VARIABLES
  pc,             \* where main() stands
  url,            \* getRepos: the page to request next, 0 for null
  repos,          \* getRepos: the identifiers collected so far
  ci,             \* collectRepoMetadata: position in repos
  repoMetadata,   \* the mapping, as its entries in insertion order
  gi,             \* generateReadme: position in the mapping's keys
  supportDocsUrl, \* generateReadme: the local of the same name
  libraries,      \* generateReadme: the array of the same name
  librariesJson,  \* ./libraries.json: <<>> until written, then <<content>>
  readme,         \* ./README.md: <<>> until written, then <<rows>>
  inflight,       \* requests issued and not yet settled
  world,          \* what each repository's metadata file answers with
  reqLog,         \* history: every request issued, in order
  pagesSeen,      \* history: every search response received, in order
  probeLog,       \* history: every HEAD request settled, with its status
  fault           \* history: Len(reqLog) when a request raised an error, else -1

vars ==
  <<pc, url, repos, ci, repoMetadata, gi, supportDocsUrl, libraries,
    librariesJson, readme, inflight, world, reqLog, pagesSeen, probeLog, fault>>

Keys(mapping) == {mapping[i].key : i \in 1..Len(mapping)}
\* repoMetadata[key] = rec: a new key goes last, a known key keeps its place
Assign(mapping, key, rec) ==
  IF key \in Keys(mapping)
    THEN [i \in 1..Len(mapping) |->
            IF mapping[i].key = key THEN [key |-> key, rec |-> rec] ELSE mapping[i]]
    ELSE Append(mapping, [key |-> key, rec |-> rec])

\* the awaited request settles
Settle(q) == SubSeq(q, 1, Len(q) - 1)

\* main() is entered: getRepos is about to request the first page
InitMain ==
  /\ pc = "search"
  /\ url = 1
  /\ repos = <<>>
  /\ ci = 1
  /\ repoMetadata = <<>>
  /\ gi = 1
  /\ supportDocsUrl = <<>>
  /\ libraries = <<>>
  /\ librariesJson = <<>>
  /\ readme = <<>>
  /\ inflight = <<>>
  /\ world = [r \in RepoIds |-> Unknown]
  /\ reqLog = <<>>
  /\ pagesSeen = <<>>
  /\ probeLog = <<>>
  /\ fault = -1

(***************************************************************************)
(* getRepos                                                                *)
(***************************************************************************)
\* a loop that would keep the url of the page just read
NextUrlKeep(cur, link) == IF link = "next" THEN cur + 1 ELSE cur

\* lines 135-141: url after a response; rel="next" of page n names page n+1
NextUrl(cur, link) == IF link = "next" THEN cur + 1 ELSE 0

\* a collector that would drop identifiers it already holds
RECURSIVE PushNew(_, _)
PushNew(acc, items) ==
  IF items = <<>> THEN acc
  ELSE PushNew(IF \E i \in 1..Len(acc) : acc[i] = Head(items)
                 THEN acc ELSE Append(acc, Head(items)),
               Tail(items))

\* line 134: repos.push(...res.data.items.map(r => r.full_name))
PushAll(acc, items) == acc \o items

\* line 133: github.request({ url: url.href }) is issued
SearchRequest ==
  /\ pc = "search"
  /\ url # 0
  /\ inflight' = Append(inflight, SearchReq(url))
  /\ reqLog' = Append(reqLog, SearchReq(url))
  /\ pc' = "awaitSearch"
  /\ UNCHANGED <<url, repos, ci, repoMetadata, gi, supportDocsUrl, libraries,
                 librariesJson, readme, world, pagesSeen, probeLog, fault>>

\* lines 134-143: the response arrives; the loop goes on or getRepos returns
SearchResponse(items, link) ==
  /\ pc = "awaitSearch"
  /\ link = "next" => url < MaxPages
  /\ inflight' = Settle(inflight)
  /\ repos' = PushAll(repos, items)
  /\ url' = NextUrl(url, link)
  /\ pagesSeen' = Append(pagesSeen, [page |-> url, items |-> items, link |-> link])
  /\ pc' = IF url' # 0 THEN "search" ELSE "collect"
  /\ UNCHANGED <<ci, repoMetadata, gi, supportDocsUrl, libraries, librariesJson,
                 readme, world, reqLog, probeLog, fault>>

\* line 133 throws: nothing in getRepos or main catches it
SearchFail ==
  /\ pc = "awaitSearch"
  /\ inflight' = Settle(inflight)
  /\ fault' = Len(reqLog)
  /\ pc' = "failed"
  /\ UNCHANGED <<url, repos, ci, repoMetadata, gi, supportDocsUrl, libraries,
                 librariesJson, readme, world, reqLog, pagesSeen, probeLog>>

(***************************************************************************)
(* collectRepoMetadata                                                     *)
(***************************************************************************)
\* err.response is set only when the server answered
HasResponse(err) == err.kind = "http"

\* a catch clause that would let every error pass as "no metadata"
RethrowsNever(err) == FALSE

\* a catch clause that would rethrow every error
RethrowsAlways(err) == TRUE

\* line 49: !err.response || err.response.status !== 404
Rethrows(err) == ~HasResponse(err) \/ err.status # 404

\* the metadata file of a repository answers the same way during a run
Answers(repo, outcome) == world[repo] = Unknown \/ world[repo] = outcome

\* a loop that would issue the request and go on without awaiting it
CollectRequestNoAwait ==
  /\ pc = "collect"
  /\ ci <= Len(repos)
  /\ inflight' = Append(inflight, ContentsReq(repos[ci]))
  /\ reqLog' = Append(reqLog, ContentsReq(repos[ci]))
  /\ ci' = ci + 1
  /\ UNCHANGED <<pc, url, repos, repoMetadata, gi, supportDocsUrl, libraries,
                 librariesJson, readme, world, pagesSeen, probeLog, fault>>

\* the for-of loop of line 40 has a next element; line 43 issues its request
CollectRequest ==
  /\ pc = "collect"
  /\ ci <= Len(repos)
  /\ inflight' = Append(inflight, ContentsReq(repos[ci]))
  /\ reqLog' = Append(reqLog, ContentsReq(repos[ci]))
  /\ pc' = "awaitContents"
  /\ UNCHANGED <<url, repos, ci, repoMetadata, gi, supportDocsUrl, libraries,
                 librariesJson, readme, world, pagesSeen, probeLog, fault>>

\* lines 44-47: the content decodes and parses to rec
CollectFound(rec) ==
  /\ pc = "awaitContents"
  /\ Answers(repos[ci], Found(rec))
  /\ world' = [world EXCEPT ![repos[ci]] = Found(rec)]
  /\ inflight' = Settle(inflight)
  /\ repoMetadata' = Assign(repoMetadata, repos[ci], rec)
  /\ ci' = ci + 1
  /\ pc' = "collect"
  /\ UNCHANGED <<url, repos, gi, supportDocsUrl, libraries, librariesJson,
                 readme, reqLog, pagesSeen, probeLog, fault>>

\* lines 48-53: the error is caught and the loop goes on
CollectMissing(err) ==
  /\ pc = "awaitContents"
  /\ Answers(repos[ci], Failing(err))
  /\ ~Rethrows(err)
  /\ world' = [world EXCEPT ![repos[ci]] = Failing(err)]
  /\ inflight' = Settle(inflight)
  /\ ci' = ci + 1
  /\ pc' = "collect"
  /\ fault' = IF HasResponse(err) /\ err.status = 404 THEN fault ELSE Len(reqLog)
  /\ UNCHANGED <<url, repos, repoMetadata, gi, supportDocsUrl, libraries,
                 librariesJson, readme, reqLog, pagesSeen, probeLog>>

\* lines 49-51: the error is thrown again and main() rejects
CollectThrow(err) ==
  /\ pc = "awaitContents"
  /\ Answers(repos[ci], Failing(err))
  /\ Rethrows(err)
  /\ world' = [world EXCEPT ![repos[ci]] = Failing(err)]
  /\ inflight' = Settle(inflight)
  /\ pc' = "failed"
  /\ fault' = IF HasResponse(err) /\ err.status = 404 THEN fault ELSE Len(reqLog)
  /\ UNCHANGED <<url, repos, ci, repoMetadata, gi, supportDocsUrl, libraries,
                 librariesJson, readme, reqLog, pagesSeen, probeLog>>

\* line 55: the loop is over; main() calls generateReadme (line 150)
CollectReturn ==
  /\ pc = "collect"
  /\ ci > Len(repos)
  /\ pc' = "generate"
  /\ UNCHANGED <<url, repos, ci, repoMetadata, gi, supportDocsUrl, libraries,
                 librariesJson, readme, inflight, world, reqLog, pagesSeen,
                 probeLog, fault>>

(***************************************************************************)
(* generateReadme                                                          *)
(***************************************************************************)
\* a filter that would keep every record whose api_id field is present
ListedIfPresent(rec) == rec.api_id # Absent

\* line 70: the record passes the filter unless !metadata.api_id
Listed(rec) == Truthy(rec.api_id)

\* line 78: if (metadata.product_documentation)
HasDocs(rec) == rec.product_documentation # <<>>

RECURSIVE InsertSorted(_, _)
\* x goes after every element that does not compare greater than it
InsertSorted(sorted, x) ==
  IF sorted = <<>> THEN <<x>>
  ELSE IF LocaleCompare(Head(sorted).rec.name_pretty, x.rec.name_pretty) > 0
    THEN <<x>> \o sorted
  ELSE <<Head(sorted)>> \o InsertSorted(Tail(sorted), x)

RECURSIVE SortFrom(_, _)
SortFrom(sorted, rest) ==
  IF rest = <<>> THEN sorted
  ELSE SortFrom(InsertSorted(sorted, Head(rest)), Tail(rest))

\* an array left in the order of the mapping
SortLibrariesSkipped(libs) == libs

\* lines 113-115: libraries.sort by localeCompare of name_pretty (stable)
SortLibraries(libs) == SortFrom(<<>>, libs)

\* line 120: the table row of one library
Row(lib) ==
  [key |-> lib.key, name_pretty |-> lib.rec.name_pretty, api_id |-> lib.rec.api_id]
\* lines 118-121: one row per library, in the order of the array
RenderRows(libs) == [i \in 1..Len(libs) |-> Row(libs[i])]

\* lines 70-72: the record has no usable api_id and is skipped
GenSkip ==
  /\ pc = "generate"
  /\ gi <= Len(repoMetadata)
  /\ ~Listed(repoMetadata[gi].rec)
  /\ gi' = gi + 1
  /\ UNCHANGED <<pc, url, repos, ci, repoMetadata, supportDocsUrl, libraries,
                 librariesJson, readme, inflight, world, reqLog, pagesSeen,
                 probeLog, fault>>

\* lines 76, 78, 110: no product_documentation, so no probe
GenNoDocs ==
  /\ pc = "generate"
  /\ gi <= Len(repoMetadata)
  /\ Listed(repoMetadata[gi].rec)
  /\ ~HasDocs(repoMetadata[gi].rec)
  /\ LET e == repoMetadata[gi]
         rec == [e.rec EXCEPT !.name_pretty = NormalizeName(@)]
     IN  /\ repoMetadata' = [repoMetadata EXCEPT ![gi].rec = rec]
         /\ libraries' = Append(libraries, [key |-> e.key, rec |-> rec])
  /\ gi' = gi + 1
  /\ UNCHANGED <<pc, url, repos, ci, supportDocsUrl, librariesJson, readme,
                 inflight, world, reqLog, pagesSeen, probeLog, fault>>

\* lines 76-102: the name is normalized, the candidate computed and probed
GenProbeRequest ==
  /\ pc = "generate"
  /\ gi <= Len(repoMetadata)
  /\ Listed(repoMetadata[gi].rec)
  /\ HasDocs(repoMetadata[gi].rec)
  /\ LET e == repoMetadata[gi]
         rec == [e.rec EXCEPT !.name_pretty = NormalizeName(@)]
         candidate == CandidateUrl(rec.name_pretty, rec.product_documentation)
     IN  /\ repoMetadata' = [repoMetadata EXCEPT ![gi].rec = rec]
         /\ supportDocsUrl' = candidate
         /\ inflight' = Append(inflight, HeadReq(candidate))
         /\ reqLog' = Append(reqLog, HeadReq(candidate))
  /\ pc' = "awaitHead"
  /\ UNCHANGED <<url, repos, ci, gi, libraries, librariesJson, readme, world,
                 pagesSeen, probeLog, fault>>

\* lines 103-110: the probe answered with status
GenProbeResponse(status) ==
  /\ pc = "awaitHead"
  /\ LET e == repoMetadata[gi]
         final == AfterProbe(supportDocsUrl, e.rec.product_documentation, status)
         rec == [e.rec EXCEPT !.support_documentation = final]
     IN  /\ repoMetadata' = [repoMetadata EXCEPT ![gi].rec = rec]
         /\ libraries' = Append(libraries, [key |-> e.key, rec |-> rec])
         /\ probeLog' = Append(probeLog,
                          [key |-> e.key, url |-> supportDocsUrl, status |-> status])
  /\ supportDocsUrl' = <<>>
  /\ inflight' = Settle(inflight)
  /\ gi' = gi + 1
  /\ pc' = "generate"
  /\ UNCHANGED <<url, repos, ci, librariesJson, readme, world, reqLog,
                 pagesSeen, fault>>

\* line 98 throws (no response at all): generateReadme and main() reject
GenProbeError ==
  /\ pc = "awaitHead"
  /\ inflight' = Settle(inflight)
  /\ fault' = Len(reqLog)
  /\ pc' = "failed"
  /\ UNCHANGED <<url, repos, ci, repoMetadata, gi, supportDocsUrl, libraries,
                 librariesJson, readme, world, reqLog, pagesSeen, probeLog>>

\* lines 113-123: the loop is over; sort, write libraries.json, render and
\* write README.md
GenerateFinish ==
  /\ pc = "generate"
  /\ gi > Len(repoMetadata)
  /\ libraries' = SortLibraries(libraries)
  /\ librariesJson' = <<libraries'>>
  /\ readme' = <<RenderRows(libraries')>>
  /\ pc' = "done"
  /\ UNCHANGED <<url, repos, ci, repoMetadata, gi, supportDocsUrl, inflight,
                 world, reqLog, pagesSeen, probeLog, fault>>

(***************************************************************************)
(* Specifications.                                                         *)
(***************************************************************************)
\* the repositories and pages of a whole run
RunRepos == {AllRepoNames[1], AllRepoNames[2]}
RunItems == {<<>>} \cup {<<r>> : r \in RunRepos}

\* main(), from its first line to its last
Next ==
  \/ SearchRequest
  \/ \E items \in RunItems, link \in Links : SearchResponse(items, link)
  \/ SearchFail
  \/ CollectRequest
  \/ \E rec \in RunRecords : CollectFound(rec)
  \/ \E err \in ContentsErrors : CollectMissing(err)
  \/ \E err \in ContentsErrors : CollectThrow(err)
  \/ CollectReturn
  \/ GenSkip
  \/ GenNoDocs
  \/ GenProbeRequest
  \/ \E status \in ProbeStatuses : GenProbeResponse(status)
  \/ GenProbeError
  \/ GenerateFinish

Spec == InitMain /\ [][Next]_vars

\* getRepos() alone, over every page the bounds allow
NextRepos ==
  \/ SearchRequest
  \/ \E items \in SeqsUpTo(RepoIds, MaxItems), link \in Links : SearchResponse(items, link)
  \/ SearchFail

SpecRepos == InitMain /\ [][NextRepos]_vars

\* collectRepoMetadata(repos) alone, for every argument the bounds allow
InitCollect ==
  /\ pc = "collect"
  /\ url = 0
  /\ repos \in SeqsUpTo(RepoIds, MaxRepos)
  /\ ci = 1
  /\ repoMetadata = <<>>
  /\ gi = 1
  /\ supportDocsUrl = <<>>
  /\ libraries = <<>>
  /\ librariesJson = <<>>
  /\ readme = <<>>
  /\ inflight = <<>>
  /\ world = [r \in RepoIds |-> Unknown]
  /\ reqLog = <<>>
  /\ pagesSeen = <<>>
  /\ probeLog = <<>>
  /\ fault = -1

NextCollect ==
  \/ CollectRequest
  \/ \E rec \in RunRecords : CollectFound(rec)
  \/ \E err \in ContentsErrors : CollectMissing(err)
  \/ \E err \in ContentsErrors : CollectThrow(err)
  \/ CollectReturn

SpecCollect == InitCollect /\ [][NextCollect]_vars

\* the mappings of n entries over the records of set R
Mappings(n, R) ==
  {[i \in 1..n |-> [key |-> AllRepoNames[i], rec |-> f[i]]] : f \in [1..n -> R]}

\* generateReadme(repoMetadata) alone, for every mapping the bounds allow
InitGenerate ==
  /\ pc = "generate"
  /\ url = 0
  /\ repos = <<>>
  /\ ci = 1
  /\ \E n \in 0..MaxEntries : repoMetadata \in Mappings(n, Records)
  /\ gi = 1
  /\ supportDocsUrl = <<>>
  /\ libraries = <<>>
  /\ librariesJson = <<>>
  /\ readme = <<>>
  /\ inflight = <<>>
  /\ world = [r \in RepoIds |-> Unknown]
  /\ reqLog = <<>>
  /\ pagesSeen = <<>>
  /\ probeLog = <<>>
  /\ fault = -1

NextGenerate ==
  \/ GenSkip
  \/ GenNoDocs
  \/ GenProbeRequest
  \/ \E status \in ProbeStatuses : GenProbeResponse(status)
  \/ GenProbeError
  \/ GenerateFinish

SpecGenerate == InitGenerate /\ [][NextGenerate]_vars

\* generateReadme on one record, for every product_documentation the
\* bounds allow
InitUrl ==
  /\ pc = "generate"
  /\ url = 0
  /\ repos = <<>>
  /\ ci = 1
  /\ repoMetadata \in
       Mappings(1, {MakeRecord(a, n, d) : a \in ApiIds, n \in Names,
                                          d \in UrlInputs \cup {<<>>}})
  /\ gi = 1
  /\ supportDocsUrl = <<>>
  /\ libraries = <<>>
  /\ librariesJson = <<>>
  /\ readme = <<>>
  /\ inflight = <<>>
  /\ world = [r \in RepoIds |-> Unknown]
  /\ reqLog = <<>>
  /\ pagesSeen = <<>>
  /\ probeLog = <<>>
  /\ fault = -1

SpecUrl == InitUrl /\ [][NextGenerate]_vars

(***************************************************************************)
(* Properties.                                                             *)
(***************************************************************************)
Count(seq, x) == Cardinality({i \in 1..Len(seq) : seq[i] = x})
Last(seq) == seq[Len(seq)]
KeyCount(seq, key) == Cardinality({i \in 1..Len(seq) : seq[i].key = key})
\* the settled probes of the record stored under key
ProbesOf(key) == {i \in 1..Len(probeLog) : probeLog[i].key = key}
Returned == pc = "collect"
Collected == pc = "generate"
Done == pc = "done"

\* C1 as stated: a listed record whose normalized name, lower-cased and
\* trimmed, begins with "stackdriver" and that has a product-documentation
\* URL always gets the fixed URL as support_documentation, whatever the
\* probe answered, 404 included.
C1_AlwaysFixedUrl ==
  \A i \in 1..Len(libraries) :
    LET rec == libraries[i].rec
    IN  IsStackdriver(rec.name_pretty) /\ HasDocs(rec)
          => rec.support_documentation = StackdriverSupportUrl

\* C1 as amended: for such a record the URL probed is always the fixed URL,
\* whatever product_documentation is; support_documentation is the fixed URL
\* when the probe answers anything but 404, and the original
\* product_documentation when it answers 404.
C1_FixedUrlUnless404 ==
  \A i \in 1..Len(libraries) :
    LET rec == libraries[i].rec
    IN  IsStackdriver(rec.name_pretty) /\ HasDocs(rec)
          => /\ Cardinality(ProbesOf(libraries[i].key)) = 1
             /\ \A p \in ProbesOf(libraries[i].key) :
                  /\ probeLog[p].url = StackdriverSupportUrl
                  /\ probeLog[p].status # 404
                       => rec.support_documentation = StackdriverSupportUrl
                  /\ probeLog[p].status = 404
                       => rec.support_documentation = rec.product_documentation

\* two stackdriver records were probed: one answer was 404, the other 500
C1_Witness ==
  \E i, j \in 1..Len(libraries) :
    /\ IsStackdriver(libraries[i].rec.name_pretty)
    /\ IsStackdriver(libraries[j].rec.name_pretty)
    /\ \E p \in ProbesOf(libraries[i].key) : probeLog[p].status = 404
    /\ \E p \in ProbesOf(libraries[j].key) : probeLog[p].status = 500
    /\ libraries[i].rec.support_documentation = DocA
    /\ libraries[j].rec.support_documentation = StackdriverSupportUrl

\* C2 as stated: the sequence getRepos returns holds no identifier twice.
C2_NoDuplicates ==
  Returned => \A i, j \in 1..Len(repos) : repos[i] = repos[j] => i = j

RECURSIVE SumCounts(_, _)
\* how often id occurs in the items of the pages
SumCounts(pages, id) ==
  IF pages = <<>> THEN 0
  ELSE Count(Head(pages).items, id) + SumCounts(Tail(pages), id)

\* C2 as amended: getRepos returns every full_name as often as it occurs in
\* the result pages, so the result is free of duplicates exactly when no
\* full_name occurs twice within a page or on two pages.
C2_MultiplicityKept ==
  Returned =>
    /\ \A id \in RepoIds : Count(repos, id) = SumCounts(pagesSeen, id)
    /\ (\A i, j \in 1..Len(repos) : repos[i] = repos[j] => i = j)
         <=> (\A id \in RepoIds : SumCounts(pagesSeen, id) <= 1)

\* getRepos returned an identifier that two pages listed
C2_Witness ==
  /\ Returned
  /\ Len(pagesSeen) >= 2
  /\ \E id \in RepoIds :
       /\ Count(pagesSeen[1].items, id) = 1
       /\ Count(pagesSeen[2].items, id) = 1
       /\ Count(repos, id) = 2

RECURSIVE ConcatItems(_)
ConcatItems(pages) ==
  IF pages = <<>> THEN <<>> ELSE Head(pages).items \o ConcatItems(Tail(pages))

\* C3: getRepos requests page 1, then the next page exactly while the last
\* response carried rel="next"; it stops at the first response without a
\* Link header or without rel="next"; no page is requested twice or
\* skipped; and the result is the pages' items concatenated in page order.
C3_Pagination ==
  /\ reqLog = [i \in 1..Len(reqLog) |-> SearchReq(i)]
  /\ \A i \in 1..Len(pagesSeen) : pagesSeen[i].page = i
  /\ Len(reqLog) = Len(pagesSeen) + (IF pc \in {"awaitSearch", "failed"} THEN 1 ELSE 0)
  /\ \A i \in 1..(Len(pagesSeen) - 1) : pagesSeen[i].link = "next"
  /\ pc = "search" => pagesSeen = <<>> \/ Last(pagesSeen).link = "next"
  /\ pc = "awaitSearch" => pagesSeen = <<>> \/ Last(pagesSeen).link = "next"
  /\ Returned => pagesSeen # <<>> /\ Last(pagesSeen).link # "next"
  /\ repos = ConcatItems(pagesSeen)

\* getRepos returned after two pages, the second with a Link header that
\* has no rel="next", and with items from both
C3_Witness ==
  /\ Returned
  /\ Len(pagesSeen) = 2
  /\ pagesSeen[2].link = "other"
  /\ pagesSeen[1].items # <<>>
  /\ pagesSeen[2].items # <<>>
  /\ repos = pagesSeen[1].items \o pagesSeen[2].items

Is404(outcome) ==
  outcome.kind = "error" /\ outcome.err.kind = "http" /\ outcome.err.status = 404

\* C4: a 404 for a repository's metadata file is not an error: the
\* repository gets no entry, the loop goes on with the next repository (so
\* the function fails only on another error, and when it returns every
\* repository of the input was fetched, in order), and every repository
\* whose fetch and parse succeeded has its entry.
C4_MissingIsSkipped ==
  /\ pc = "failed" => ~Is404(world[repos[ci]])
  /\ reqLog = [i \in 1..Len(reqLog) |-> ContentsReq(repos[i])]
  /\ Len(reqLog) = (ci - 1) + (IF pc \in {"awaitContents", "failed"} THEN 1 ELSE 0)
  /\ Collected => Len(reqLog) = Len(repos)
  /\ \A i \in 1..(ci - 1) :
       /\ Is404(world[repos[i]]) \/ world[repos[i]].kind = "found"
       /\ Is404(world[repos[i]]) => repos[i] \notin Keys(repoMetadata)
       /\ world[repos[i]].kind = "found" =>
            \E k \in 1..Len(repoMetadata) :
              repoMetadata[k] = [key |-> repos[i], rec |-> world[repos[i]].rec]

\* collectRepoMetadata returned although the first fetch answered 404; the
\* repositories after it have their entries
C4_Witness ==
  /\ Collected
  /\ Len(repos) = 3
  /\ Is404(world[repos[1]])
  /\ repos[3] # repos[1]
  /\ Keys(repoMetadata) = {repos[3]}
  /\ Len(reqLog) = 3

\* C5: once a discovery request failed, a metadata fetch failed with
\* anything but a 404 (a response that does not parse included) or a HEAD
\* probe raised an error, the run has failed: no request is issued after
\* the failure and neither libraries.json nor README.md is written; a file
\* is written only by a run in which no request failed.
C5_FailStop ==
  /\ fault # -1 =>
       /\ pc = "failed"
       /\ Len(reqLog) = fault
       /\ inflight = <<>>
       /\ librariesJson = <<>>
       /\ readme = <<>>
  /\ pc = "failed" => fault # -1
  /\ librariesJson # <<>> \/ readme # <<>> => Done /\ fault = -1

\* a HEAD probe raised an error after a first library had been collected
C5_Witness ==
  /\ pc = "failed"
  /\ fault = Len(reqLog)
  /\ Last(reqLog).kind = "head"
  /\ Len(libraries) >= 1
  /\ librariesJson = <<>>
  /\ readme = <<>>

\* the libraries written to libraries.json, the rows written to README.md
WrittenLibraries == librariesJson[1]
WrittenRows == readme[1]

\* C6 as stated: in a successful run a record without the api_id field is
\* in neither file, and a record that carries the field is once in
\* libraries.json and once in the README table.
C6_PresenceGates ==
  Done =>
    \A k \in 1..Len(repoMetadata) :
      LET e == repoMetadata[k]
      IN  /\ e.rec.api_id = Absent =>
               KeyCount(WrittenLibraries, e.key) = 0 /\ KeyCount(WrittenRows, e.key) = 0
          /\ e.rec.api_id # Absent =>
               KeyCount(WrittenLibraries, e.key) = 1 /\ KeyCount(WrittenRows, e.key) = 1

\* C6 as amended: in a successful run a record whose api_id is absent or
\* empty is in neither file, and a record with a non-empty api_id is once
\* in libraries.json (as it stands in the mapping) and once in the README
\* table (with its name and api_id).
C6_TruthyGates ==
  Done =>
    \A k \in 1..Len(repoMetadata) :
      LET e == repoMetadata[k]
      IN  /\ (e.rec.api_id = Absent \/ e.rec.api_id = <<"">>) =>
               KeyCount(WrittenLibraries, e.key) = 0 /\ KeyCount(WrittenRows, e.key) = 0
          /\ (e.rec.api_id # Absent /\ e.rec.api_id # <<"">>) =>
               /\ KeyCount(WrittenLibraries, e.key) = 1
               /\ KeyCount(WrittenRows, e.key) = 1
               /\ \E i \in 1..Len(WrittenLibraries) : WrittenLibraries[i] = e
               /\ \E i \in 1..Len(WrittenRows) :
                    WrittenRows[i] = [key |-> e.key, name_pretty |-> e.rec.name_pretty,
                                      api_id |-> e.rec.api_id]

\* a run ended with one record listed and one left out for its empty api_id
C6_Witness ==
  /\ Done
  /\ Len(repoMetadata) = 2
  /\ repoMetadata[1].rec.api_id = <<"">>
  /\ repoMetadata[2].rec.api_id = <<"pubsub.googleapis.com">>
  /\ Len(WrittenLibraries) = 1
  /\ WrittenLibraries[1].key = repoMetadata[2].key
  /\ Len(WrittenRows) = 1

\* the listed records of the mapping, in its order
IncludedEntries == SelectSeq(repoMetadata, LAMBDA e : Truthy(e.rec.api_id))

\* the written array holds the included records, each once
IsPermutationOfIncluded ==
  /\ Len(WrittenLibraries) = Len(IncludedEntries)
  /\ \A k \in 1..Len(IncludedEntries) :
       Count(WrittenLibraries, IncludedEntries[k]) = 1

\* the README rows are the written array's libraries, in its order
RowsFollowArray ==
  /\ Len(WrittenRows) = Len(WrittenLibraries)
  /\ \A i \in 1..Len(WrittenRows) :
       /\ WrittenRows[i].key = WrittenLibraries[i].key
       /\ WrittenRows[i].name_pretty = WrittenLibraries[i].rec.name_pretty

\* C7 as stated: the written array is non-decreasing under the <= of
\* strings (sorted[i].name_pretty <= sorted[i+1].name_pretty), it is a
\* permutation of the included records, and the rows follow its order.
C7_SortedByCodeUnits ==
  Done =>
    /\ \A i \in 1..(Len(WrittenLibraries) - 1) :
         CodeUnitCompare(WrittenLibraries[i].rec.name_pretty,
                         WrittenLibraries[i + 1].rec.name_pretty) <= 0
    /\ IsPermutationOfIncluded
    /\ RowsFollowArray

\* C7 as amended: the written array is non-decreasing under localeCompare
\* (a.name_pretty.localeCompare(b.name_pretty) <= 0 for every adjacent
\* pair a, b), it is a permutation of the included records, and the rows
\* follow its order.
C7_SortedByLocale ==
  Done =>
    /\ \A i \in 1..(Len(WrittenLibraries) - 1) :
         LocaleCompare(WrittenLibraries[i].rec.name_pretty,
                       WrittenLibraries[i + 1].rec.name_pretty) <= 0
    /\ IsPermutationOfIncluded
    /\ RowsFollowArray

\* the sort moved the second record of the mapping in front of the first,
\* and the lower-case name stands before the upper-case one
C7_Witness ==
  /\ Done
  /\ Len(WrittenLibraries) = 2
  /\ WrittenLibraries[1].key = AllRepoNames[2]
  /\ WrittenLibraries[2].key = AllRepoNames[1]
  /\ WrittenLibraries[1].rec.name_pretty = <<"b">>
  /\ WrittenLibraries[2].rec.name_pretty = <<"B">>

\* C8: for every listed record with a product-documentation URL, once the
\* HEAD probe of the candidate has answered: on 404 support_documentation
\* is the original product_documentation, on any other status (403 and 500
\* included) it is the candidate that was probed.
C8_FallbackOn404Only ==
  \A i \in 1..Len(libraries) :
    LET rec == libraries[i].rec
    IN  HasDocs(rec) =>
          /\ Cardinality(ProbesOf(libraries[i].key)) = 1
          /\ \A p \in ProbesOf(libraries[i].key) :
               /\ \E q \in 1..Len(reqLog) : reqLog[q] = HeadReq(probeLog[p].url)
               /\ probeLog[p].status = 404 =>
                    rec.support_documentation = rec.product_documentation
               /\ probeLog[p].status # 404 =>
                    rec.support_documentation = probeLog[p].url

\* one record fell back to its product_documentation on a 404, another
\* kept a candidate that answered 403
C8_Witness ==
  \E i, j \in 1..Len(libraries) :
    /\ ~IsStackdriver(libraries[i].rec.name_pretty)
    /\ ~IsStackdriver(libraries[j].rec.name_pretty)
    /\ \E p \in ProbesOf(libraries[i].key) : probeLog[p].status = 404
    /\ \E p \in ProbesOf(libraries[j].key) : probeLog[p].status = 403
    /\ libraries[i].rec.support_documentation = DocB
    /\ libraries[j].rec.support_documentation # libraries[j].rec.product_documentation

\* n is s with its run of trailing slashes reduced to one slash (one is
\* added when s has none)
IsSlashNormalized(s, n) ==
  \E k \in 0..Len(s) :
    /\ \A j \in (Len(s) - k + 1)..Len(s) : s[j] = "/"
    /\ k < Len(s) => s[Len(s) - k] # "/"
    /\ n = SubSeq(s, 1, Len(s) - k) \o <<"/">>
\* the places of n where "docs/" stands
DocsPlaces(n) ==
  {p \in 1..Len(n) : p + 4 <= Len(n) /\ SubSeq(n, p, p + 4) = DocsSlash}
\* the HEAD requests issued for records that are not stackdriver ones
DerivedProbes ==
  {q \in 1..Len(reqLog) :
     /\ reqLog[q].kind = "head"
     /\ ~IsStackdriver(repoMetadata[1].rec.name_pretty)}

\* C9 as stated: the candidate is the slash-normalized URL with everything
\* from its final "docs/" on replaced by "docs/getting-support" (appended
\* when there is no "docs/"): all before the final "docs/" is kept.
C9_ReplacesFinalDocs ==
  \A q \in DerivedProbes :
    \E n \in {GuaranteeTrailingSlash(repoMetadata[1].rec.product_documentation)} :
      /\ IsSlashNormalized(repoMetadata[1].rec.product_documentation, n)
      /\ \/ DocsPlaces(n) = {} /\ reqLog[q].url = n \o GettingSupport
         \/ \E p \in DocsPlaces(n) :
              /\ \A r \in DocsPlaces(n) : r <= p
              /\ reqLog[q].url = SubSeq(n, 1, p - 1) \o GettingSupport

\* C9 as amended: the candidate is the slash-normalized URL with everything
\* from its first "docs/" on replaced by "docs/getting-support" (appended
\* when there is no "docs/"): only what stands before the first "docs/" is
\* kept.
C9_ReplacesFirstDocs ==
  \A q \in DerivedProbes :
    \E n \in {GuaranteeTrailingSlash(repoMetadata[1].rec.product_documentation)} :
      /\ IsSlashNormalized(repoMetadata[1].rec.product_documentation, n)
      /\ \/ DocsPlaces(n) = {} /\ reqLog[q].url = n \o GettingSupport
         \/ \E p \in DocsPlaces(n) :
              /\ \A r \in DocsPlaces(n) : p <= r
              /\ reqLog[q].url = SubSeq(n, 1, p - 1) \o GettingSupport

\* a/docs/docs was probed as a/docs/getting-support
C9_Witness ==
  /\ DerivedProbes # {}
  /\ repoMetadata[1].rec.product_documentation =
       <<"a", "/", "d", "o", "c", "s", "/", "d", "o", "c", "s">>
  /\ reqLog[1].url = <<"a", "/">> \o GettingSupport

\* the requests of kind k, in the order they were issued
OfKind(k) == SelectSeq(reqLog, LAMBDA r : r.kind = k)
\* the records generateReadme probes, in the order of the mapping
ProbedEntries ==
  SelectSeq(repoMetadata, LAMBDA e : Truthy(e.rec.api_id) /\ e.rec.product_documentation # <<>>)

\* C10: at most one request is in flight; the requests are issued stage by
\* stage: the search pages, then one contents request per discovered
\* repository in discovery order, then one HEAD request per listed record
\* with a product-documentation URL in mapping order; and a stage's first
\* request is issued only after the previous stage's last one has settled.
C10_Sequential ==
  /\ Len(inflight) <= 1
  /\ reqLog = OfKind("search") \o OfKind("contents") \o OfKind("head")
  /\ OfKind("search") = [i \in 1..Len(OfKind("search")) |-> SearchReq(i)]
  /\ Len(OfKind("contents")) <= Len(repos)
  /\ OfKind("contents") = [i \in 1..Len(OfKind("contents")) |-> ContentsReq(repos[i])]
  /\ Len(OfKind("head")) <= Len(ProbedEntries)
  /\ \A i \in 1..Len(OfKind("head")) :
       /\ i <= Len(probeLog) => probeLog[i].key = ProbedEntries[i].key
       /\ i <= Len(probeLog) => probeLog[i].url = OfKind("head")[i].url
       /\ i > Len(probeLog) =>
            /\ i = Len(OfKind("head"))
            /\ repoMetadata[gi].key = ProbedEntries[i].key
            /\ OfKind("head")[i].url = supportDocsUrl
  /\ OfKind("contents") # <<>> =>
       /\ url = 0
       /\ Len(pagesSeen) = Len(OfKind("search"))
       /\ pc \notin {"search", "awaitSearch"}
  /\ OfKind("head") # <<>> =>
       /\ Len(OfKind("contents")) = Len(repos)
       /\ ci = Len(repos) + 1
       /\ pc \notin {"collect", "awaitContents"}
  /\ inflight # <<>> => inflight = <<Last(reqLog)>>
  /\ Done =>
       /\ Len(OfKind("contents")) = Len(repos)
       /\ Len(OfKind("head")) = Len(ProbedEntries)

\* a run ended after two pages, two contents requests and two probes
C10_Witness ==
  /\ Done
  /\ Len(OfKind("search")) = 2
  /\ Len(OfKind("contents")) = 2
  /\ Len(OfKind("head")) = 2
  /\ Len(WrittenLibraries) = 2

==========================================================================
